---- MODULE Spec2Model ----
(***************************************************************************)
(* nihao: relay classification, publish eligibility and address            *)
(* normalisation, quality scoring and probing, relay selection, relay     *)
(* discovery with its mutex-guarded tally (relay.go),                      *)
(* the check run with its shared connections, the multi-relay resolver     *)
(* fetchKindFrom and the audit runCheck (check.go), and the setup run      *)
(* runSetup (main.go).                                                     *)
(*                                                                         *)
(* Scores are float64 in the source.  They are kept here in hundredths     *)
(* (0.15 is 15): every constant of the scorer is a multiple of 0.05, and   *)
(* the float64 sums differ from the decimal ones by at most one unit in    *)
(* the last place, which crosses none of the comparisons the code makes    *)
(* (score > 1.0, score < 0.0, Score >= 0.5).                               *)
(* Relay URLs are sequences of one-character strings, so that substring    *)
(* search works on them as strings.Contains does.                          *)
(***************************************************************************)
EXTENDS Integers, Sequences, FiniteSets, TLC

VARIABLES
    \* calculateRelayScore: the record scored, the returned score, position
    rs, score, scorePc,
    \* SelectRelays: arguments, result, position
    candidates, maxCount, selection, selectPc,
    \* fetchKindFrom: connected relays, what each relay holds, relay tasks,
    \* result channel, locals of the collecting loop, context, position
    relays, held, taskPc, ch, remaining, bestURL, bestEvt, ctxDone, fetchPc,
    \* bookkeeping: the relays whose result the loop has received
    got,
    \* classifyRelay, ShouldPublishTo, normalizeRelayURL: arguments, results,
    \* position
    addr, kind, purpose, publishOk, normal, renormal, classPc,
    \* ScoreRelay: argument, outcome of fetchNIP11, the record built, position
    probeURL, nip11, ws, probed, probePc,
    \* a check run: connect goroutines, connections, their contexts, the
    \* connect channel, the relays returned, connections opened so far,
    \* fetchKindFrom calls so far, their relay tasks, the run's context,
    \* position; bookkeeping: a task queried a connection that was closed
    \* while the run's context was live
    connTask, conn, connCtx, connCh, checkRelays, opened, fetches, rtask,
    runCtxDone, runPc, queriedClosed,
    \* runCheck: the identity's profile, recorded items per status, Score,
    \* exit code, position
    profile, checks, checkScore, exitCode, checkPc,
    \* runSetup: options, outcome of the nsec command, kinds published,
    \* exit code, position
    opts, nsecStored, published, setupExit, setupPc,
    \* DiscoverRelays and DiscoverDMRelays: which of the two runs, the
    \* sampling tasks, the mutex, the tally, the context, the records handed
    \* to the sort, the value returned, position; bookkeeping: the accounts
    \* whose document lists an address, the increments made per address
    discMode, dtask, mu, relaySet, discCtxDone, scores, discovered, discPc,
    listedBy, incs

scoreVars  == <<rs, score, scorePc>>
selectVars == <<candidates, maxCount, selection, selectPc>>
fetchVars  == <<relays, held, taskPc, ch, remaining, bestURL, bestEvt,
                ctxDone, fetchPc, got>>
classVars  == <<addr, kind, purpose, publishOk, normal, renormal, classPc>>
probeVars  == <<probeURL, nip11, ws, probed, probePc>>
runVars    == <<connTask, conn, connCtx, connCh, checkRelays, opened, fetches,
                rtask, runCtxDone, runPc, queriedClosed>>
checkVars  == <<profile, checks, checkScore, exitCode, checkPc>>
setupVars  == <<opts, nsecStored, published, setupExit, setupPc>>
discVars   == <<discMode, dtask, mu, relaySet, discCtxDone, scores,
                discovered, discPc, listedBy, incs>>
\* the variables of the other commands
restVars   == <<classVars, probeVars, runVars, checkVars, setupVars,
                discVars>>
vars == <<rs, score, scorePc, candidates, maxCount, selection, selectPc,
          relays, held, taskPc, ch, remaining, bestURL, bestEvt, ctxDone,
          fetchPc, got, restVars>>

----------------------------------------------------------------------------
(* Bounds                                                                  *)

\* latencies sampled: -LatencyPad..LatencyPad around 0 and each tier limit
LatencyPad == 2
\* candidate lists over the full record set have at most this length
MaxShort == 2
\* candidate lists over the plain record set have length MaxShort+1..MaxLong
MaxLong == 7
\* maxCount ranges over -1..MaxMaxCount
MaxMaxCount == 3
\* created_at ranges over 0..MaxTs
MaxTs == 2
\* at most this many relays are connected
MaxRelays == 3
\* an address ends in at most this many slash or blank characters
MaxTail == 3
\* a run is configured with this many of the default relays
MaxConfigured == 2
\* a run calls fetchKindFrom at most this many times
MaxFetches == 2
\* discovery samples this many of the reference accounts
MaxAccounts == 2
\* discovery is given this many seed relays
MaxSeeds == 2

----------------------------------------------------------------------------
(* Strings                                                                 *)

Min(S) == CHOOSE x \in S : \A y \in S : x <= y
Max(S) == CHOOSE x \in S : \A y \in S : x >= y

\* strings.Contains
Contains(s, sub) ==
    \E i \in 0..(Len(s) - Len(sub)) : SubSeq(s, i + 1, i + Len(sub)) = sub

purplepag      == <<"w","s","s",":","/","/","p","u","r","p","l","e","p","a","g",".","e","s">>
relayNosSocial == <<"w","s","s",":","/","/","r","e","l","a","y",".","n","o","s",".","s","o","c","i","a","l">>
inboxRelaysLand == <<"w","s","s",":","/","/","i","n","b","o","x",".","r","e","l","a","y","s",".","l","a","n","d">>
searchNosToday == <<"w","s","s",":","/","/","s","e","a","r","c","h",".","n","o","s",".","t","o","d","a","y">>
premiumPrimal  == <<"w","s","s",":","/","/","p","r","e","m","i","u","m",".","p","r","i","m","a","l",".","n","e","t">>
nostrWine      == <<"w","s","s",":","/","/","n","o","s","t","r",".","w","i","n","e">>
relayDamus     == <<"w","s","s",":","/","/","r","e","l","a","y",".","d","a","m","u","s",".","i","o">>
relayPrimal    == <<"w","s","s",":","/","/","r","e","l","a","y",".","p","r","i","m","a","l",".","n","e","t">>
nosLol         == <<"w","s","s",":","/","/","n","o","s",".","l","o","l">>
nwcExample     == <<"w","s","s",":","/","/","n","w","c",".","e","x","a","m","p","l","e",".","c","o","m">>

defaultRelays == <<relayDamus, relayPrimal, nosLol, purplepag>>

----------------------------------------------------------------------------
(* Relay classification                                                    *)

knownRelayPurposes ==
    (purplepag :> "outbox") @@
    (relayNosSocial :> "inbox") @@
    (inboxRelaysLand :> "inbox") @@
    (searchNosToday :> "search") @@
    (premiumPrimal :> "paid") @@
    (nostrWine :> "paid")

urlPatterns_pyramidFirst ==
    << [pattern |-> <<"p","y","r","a","m","i","d",".">>, purpose |-> "paid"],
       [pattern |-> <<"/","i","n","b","o","x">>, purpose |-> "inbox"],
       [pattern |-> <<"n","w","c",".">>, purpose |-> "nwc"],
       [pattern |-> <<"p","r","e","m","i","u","m",".">>, purpose |-> "paid"] >>

urlPatterns ==
    << [pattern |-> <<"/","i","n","b","o","x">>, purpose |-> "inbox"],
       [pattern |-> <<"n","w","c",".">>, purpose |-> "nwc"],
       [pattern |-> <<"p","y","r","a","m","i","d",".">>, purpose |-> "paid"],
       [pattern |-> <<"p","r","e","m","i","u","m",".">>, purpose |-> "paid"] >>

classifyRelay(relayURL) ==
    IF relayURL \in DOMAIN knownRelayPurposes
    THEN knownRelayPurposes[relayURL]
    ELSE LET hits == {i \in 1..Len(urlPatterns) :
                        Contains(relayURL, urlPatterns[i].pattern)}
         IN  IF hits # {} THEN urlPatterns[Min(hits)].purpose
             ELSE "general"

outboxKinds_noFollowList == {0, 10002}

\* kinds that may be published to outbox relays: profile, follow list,
\* relay list
outboxKinds == {0, 3, 10002}

ShouldPublishTo(relayURL, k) ==
    LET p == classifyRelay(relayURL)
    IN  IF p = "general" THEN TRUE
        ELSE IF p = "outbox" THEN k \in outboxKinds
        ELSE IF p \in {"inbox", "search", "nwc", "paid"} THEN FALSE
        ELSE TRUE

\* strings.TrimSpace, over the blank character
RECURSIVE TrimSpace(_)
TrimSpace(s) ==
    IF s = <<>> THEN s
    ELSE IF Head(s) = " " THEN TrimSpace(Tail(s))
    ELSE IF s[Len(s)] = " " THEN TrimSpace(SubSeq(s, 1, Len(s) - 1))
    ELSE s

\* strings.TrimRight
RECURSIVE TrimRight(_, _)
TrimRight(s, cutset) ==
    IF s # <<>> /\ s[Len(s)] \in cutset
    THEN TrimRight(SubSeq(s, 1, Len(s) - 1), cutset)
    ELSE s

\* strings.HasPrefix
HasPrefix(s, prefix) ==
    Len(s) >= Len(prefix) /\ SubSeq(s, 1, Len(prefix)) = prefix

wssScheme   == <<"w","s","s",":","/","/">>
wsScheme    == <<"w","s",":","/","/">>
httpsScheme == <<"h","t","t","p","s",":","/","/">>

normalizeRelayURL(url) ==
    LET trimmed  == TrimSpace(url)
        stripped == TrimRight(trimmed, {"/"})
    IN  IF ~HasPrefix(stripped, wssScheme) /\ ~HasPrefix(stripped, wsScheme)
        THEN <<>>
        ELSE stripped

\* Addresses handed to the three functions: a scheme, a host, an optional
\* /inbox path and a tail of slashes and blanks, with or without a leading
\* blank; and the empty string.
pyramidHost == <<"p","y","r","a","m","i","d",".","f","i","a","t","j","a","f",".","c","o","m">>
Host(u) == SubSeq(u, Len(wssScheme) + 1, Len(u))
Hosts ==
    {Host(purplepag), Host(relayNosSocial), Host(searchNosToday),
     Host(nostrWine), Host(nosLol), Host(nwcExample), pyramidHost}
Schemes == {wssScheme, wsScheme, httpsScheme}
inboxPath == <<"/","i","n","b","o","x">>
Paths == {<<>>, inboxPath}
Tails == UNION {[1..n -> {"/", " "}] : n \in 0..MaxTail}
Leads == {<<>>, <<" ">>}
Addresses ==
    {<<>>} \cup
    {l \o sc \o h \o pa \o t :
        l \in Leads, sc \in Schemes, h \in Hosts, pa \in Paths, t \in Tails}
Kinds == {0, 1, 3, 10002, 17375}

----------------------------------------------------------------------------
(* Quality scoring                                                         *)

\* rs.Reachable false: the score returned
calculateRelayScore_unreachable == 0
\* base score for being reachable
calculateRelayScore_base == 50
\* NIP-11 support
calculateRelayScore_nip11 == 15
\* score > 1.0 is cut to 1.0
calculateRelayScore_max == 100

\* the latency switch: the first case that holds decides
LatencyBonus_swapped(latencyMs) ==
    IF latencyMs < 200 THEN 15
    ELSE IF latencyMs < 500 THEN 20
    ELSE IF latencyMs < 1000 THEN 10
    ELSE IF latencyMs < 2000 THEN 5
    ELSE 0

LatencyBonus(latencyMs) ==
    IF latencyMs < 200 THEN 20
    ELSE IF latencyMs < 500 THEN 15
    ELSE IF latencyMs < 1000 THEN 10
    ELSE IF latencyMs < 2000 THEN 5
    ELSE 0

\* auth and payment penalties
Penalties_authOnly(r) ==
    IF r.AuthRequired THEN 10 ELSE 0

Penalties(r) ==
    (IF r.AuthRequired THEN 10 ELSE 0) + (IF r.PaymentRequired THEN 10 ELSE 0)

\* the unreachable branch falls through with a zero base and the lower
\* clamp is missing
calculateRelayScore_fallthrough(r) ==
    LET s0 == IF r.Reachable THEN calculateRelayScore_base ELSE 0
        s1 == IF r.HasNIP11 THEN s0 + calculateRelayScore_nip11 ELSE s0
        s2 == s1 + LatencyBonus(r.LatencyMs)
        s3 == s2 - Penalties(r)
    IN  IF s3 > calculateRelayScore_max THEN calculateRelayScore_max ELSE s3

calculateRelayScore(r) ==
    IF ~r.Reachable THEN calculateRelayScore_unreachable
    ELSE LET s0 == calculateRelayScore_base
             s1 == IF r.HasNIP11 THEN s0 + calculateRelayScore_nip11 ELSE s0
             s2 == s1 + LatencyBonus(r.LatencyMs)
             s3 == s2 - Penalties(r)
             s4 == IF s3 > calculateRelayScore_max
                   THEN calculateRelayScore_max ELSE s3
             s5 == IF s4 < 0 THEN 0 ELSE s4
         IN  s5

\* latencies around zero and around each limit of the latency switch
Latencies ==
    UNION { (t - LatencyPad)..(t + LatencyPad) : t \in {0, 200, 500, 1000, 2000} }

ScoreInputs ==
    [Reachable : BOOLEAN, HasNIP11 : BOOLEAN, LatencyMs : Latencies,
     AuthRequired : BOOLEAN, PaymentRequired : BOOLEAN]

NoRecord ==
    [Reachable |-> FALSE, HasNIP11 |-> FALSE, LatencyMs |-> 0,
     AuthRequired |-> FALSE, PaymentRequired |-> FALSE]

----------------------------------------------------------------------------
(* calculateRelayScore applied to one record                               *)

ScoreIdle == rs = NoRecord /\ score = 0 /\ scorePc = "idle"

CalcScore ==
    /\ scorePc = "call"
    /\ score' = calculateRelayScore(rs)
    /\ scorePc' = "done"
    /\ UNCHANGED <<rs, selectVars, fetchVars, restVars>>

----------------------------------------------------------------------------
(* Relay selection                                                         *)

\* maxCount <= 0 selects the default
SelectRelays_defaultMax == 5
\* General relays are picked at this score or above
SelectRelays_minScore == 50

\* the loop stops once this many relays are selected
CapReached_offByOne(n, m) == n > m

CapReached(n, m) == n >= m

\* purposes the loop skips
SkippedPurposes_noInbox == {"search", "nwc", "paid"}

SkippedPurposes == {"inbox", "search", "nwc", "paid"}

\* a general relay is appended
GeneralPicked(c) == c.Score >= SelectRelays_minScore

\* an outbox relay is appended
OutboxPicked_never(hasOutbox) == FALSE

OutboxPicked(hasOutbox) == ~hasOutbox

\* the fallback is appended after the loop
FallbackNeeded_always(hasOutbox) == TRUE

FallbackNeeded_never(hasOutbox) == FALSE

FallbackNeeded(hasOutbox) == ~hasOutbox

\* selected: the slice built; hasOutbox: the local flag;
\* picked: the index in candidates of each entry appended by the loop
Pick_firstURL(acc, cands, i) ==
    [acc EXCEPT !.selected = Append(@, cands[1].URL),
                !.picked = Append(@, i)]

Pick(acc, cands, i) ==
    [acc EXCEPT !.selected = Append(@, cands[i].URL),
                !.picked = Append(@, i)]

RECURSIVE SelectLoop(_, _, _, _)
SelectLoop(cands, m, i, acc) ==
    IF i > Len(cands) THEN acc
    ELSE IF CapReached(Len(acc.selected), m) THEN acc
    ELSE LET c == cands[i] IN
         IF ~c.Reachable THEN SelectLoop(cands, m, i + 1, acc)
         ELSE IF c.PaymentRequired THEN SelectLoop(cands, m, i + 1, acc)
         ELSE IF c.Purpose \in SkippedPurposes
              THEN SelectLoop(cands, m, i + 1, acc)
         ELSE IF c.Purpose = "outbox"
              THEN IF OutboxPicked(acc.hasOutbox)
                   THEN SelectLoop(cands, m, i + 1,
                            [Pick(acc, cands, i) EXCEPT !.hasOutbox = TRUE])
                   ELSE SelectLoop(cands, m, i + 1, acc)
         ELSE IF GeneralPicked(c)
              THEN SelectLoop(cands, m, i + 1, Pick(acc, cands, i))
              ELSE SelectLoop(cands, m, i + 1, acc)

NoSelection == [selected |-> <<>>, hasOutbox |-> FALSE, picked |-> <<>>]

SelectRelays(cands, mc) ==
    LET m == IF mc <= 0 THEN SelectRelays_defaultMax ELSE mc
        acc == SelectLoop(cands, m, 1, NoSelection)
    IN  IF FallbackNeeded(acc.hasOutbox)
        THEN [acc EXCEPT !.selected = Append(@, purplepag)]
        ELSE acc

\* a candidate as ScoreRelay labels it: Purpose is classifyRelay(URL)
Candidate(url, reachable, payment, sc) ==
    [URL |-> url, Reachable |-> reachable, PaymentRequired |-> payment,
     Score |-> sc, Purpose |-> classifyRelay(url)]

RichURLs == {purplepag, nosLol, relayNosSocial, searchNosToday, nwcExample,
             nostrWine}

Profiles == { <<TRUE, FALSE, 50>>, <<TRUE, FALSE, 45>>, <<TRUE, TRUE, 60>>,
              <<FALSE, FALSE, 0>> }

RichRecords == { Candidate(u, p[1], p[2], p[3]) : u \in RichURLs, p \in Profiles }

PlainRecords == { Candidate(purplepag, TRUE, FALSE, 90),
                  Candidate(nosLol, TRUE, FALSE, 70),
                  Candidate(relayDamus, TRUE, FALSE, 30),
                  Candidate(relayPrimal, FALSE, FALSE, 0) }

\* outbox@0.9, general@0.7, general@0.6, general@0.3, unreachable@0.0
ScenarioList ==
    << Candidate(purplepag, TRUE, FALSE, 90),
       Candidate(nosLol, TRUE, FALSE, 70),
       Candidate(relayDamus, TRUE, FALSE, 60),
       Candidate(relayPrimal, TRUE, FALSE, 30),
       Candidate(nwcExample, FALSE, FALSE, 0) >>

ListsOver(S, lo, hi) == UNION { [1..n -> S] : n \in lo..hi }

CandidateLists ==
    ListsOver(RichRecords, 0, MaxShort)
        \cup ListsOver(PlainRecords, MaxShort + 1, MaxLong)
        \cup {ScenarioList}

SelectIdle ==
    candidates = <<>> /\ maxCount = 0 /\ selection = NoSelection
        /\ selectPc = "idle"

CallSelectRelays ==
    /\ selectPc = "call"
    /\ selection' = SelectRelays(candidates, maxCount)
    /\ selectPc' = "done"
    /\ UNCHANGED <<candidates, maxCount, scoreVars, fetchVars, restVars>>

----------------------------------------------------------------------------
(* fetchKindFrom                                                           *)

\* *nostr.Event: fetchKindFrom reads CreatedAt only
NilEvt == [isNil |-> TRUE, CreatedAt |-> 0]
Event(t) == [isNil |-> FALSE, CreatedAt |-> t]
Events == { Event(t) : t \in 0..MaxTs }

\* the empty string
NoURL == <<>>

fetchResult(url, evt) == [url |-> url, evt |-> evt]

\* r.evt replaces bestEvt
Newer_firstWins(evt, best) == best.isNil

Newer_oldest(evt, best) == best.isNil \/ evt.CreatedAt < best.CreatedAt

Newer(evt, best) == best.isNil \/ evt.CreatedAt > best.CreatedAt

\* the body of case r := <-ch, on the pair (bestURL, bestEvt)
Absorb(best, r) ==
    IF ~r.evt.isNil /\ Newer(r.evt, best.evt)
    THEN fetchResult(r.url, r.evt)
    ELSE best

ConnectedSets ==
    { {defaultRelays[i] : i \in 1..n} :
        n \in 0..Min({MaxRelays, Len(defaultRelays)}) }

FetchIdle ==
    /\ relays = {} /\ held = <<>> /\ taskPc = <<>> /\ ch = <<>>
    /\ remaining = 0 /\ bestURL = NoURL /\ bestEvt = NilEvt
    /\ ctxDone = FALSE /\ fetchPc = "idle" /\ got = {}

\* make the channel, start one task per relay, set the locals
FetchCall ==
    /\ fetchPc = "call"
    /\ ch' = <<>>
    /\ taskPc' = [p \in relays |-> "query"]
    /\ bestURL' = NoURL
    /\ bestEvt' = NilEvt
    /\ remaining' = Cardinality(relays)
    /\ fetchPc' = "loop"
    /\ UNCHANGED <<relays, held, ctxDone, got, scoreVars, selectVars, restVars>>

\* relay task: QueryEvents yielded an event, send it and return
TaskSendEvent_noReturn(p) ==
    /\ taskPc[p] = "query"
    /\ ~held[p].isNil
    /\ Len(ch) < Cardinality(relays)
    /\ ch' = Append(ch, fetchResult(p, held[p]))
    /\ UNCHANGED <<relays, held, taskPc, remaining, bestURL, bestEvt, ctxDone,
                   fetchPc, got, scoreVars, selectVars, restVars>>

TaskSendEvent(p) ==
    /\ taskPc[p] = "query"
    /\ ~held[p].isNil
    /\ Len(ch) < Cardinality(relays)
    /\ ch' = Append(ch, fetchResult(p, held[p]))
    /\ taskPc' = [taskPc EXCEPT ![p] = "done"]
    /\ UNCHANGED <<relays, held, remaining, bestURL, bestEvt, ctxDone,
                   fetchPc, got, scoreVars, selectVars, restVars>>

\* relay task: QueryEvents ended without an event, send nil
TaskSendNone(p) ==
    /\ taskPc[p] = "query"
    /\ held[p].isNil
    /\ Len(ch) < Cardinality(relays)
    /\ ch' = Append(ch, fetchResult(p, NilEvt))
    /\ taskPc' = [taskPc EXCEPT ![p] = "done"]
    /\ UNCHANGED <<relays, held, remaining, bestURL, bestEvt, ctxDone,
                   fetchPc, got, scoreVars, selectVars, restVars>>

\* select: case r := <-ch
FetchRecv ==
    /\ fetchPc = "loop"
    /\ remaining > 0
    /\ ch # <<>>
    /\ LET r == Head(ch)
           b == Absorb(fetchResult(bestURL, bestEvt), r)
       IN  /\ bestURL' = b.url
           /\ bestEvt' = b.evt
           /\ got' = got \cup {r.url}
    /\ ch' = Tail(ch)
    /\ remaining' = remaining - 1
    /\ UNCHANGED <<relays, held, taskPc, ctxDone, fetchPc, scoreVars,
                   selectVars, restVars>>

\* select: case <-ctx.Done(), return bestURL, bestEvt
FetchCtxDone_dropsBest ==
    /\ fetchPc = "loop"
    /\ remaining > 0
    /\ ctxDone
    /\ fetchPc' = "returned"
    /\ bestURL' = NoURL
    /\ bestEvt' = NilEvt
    /\ UNCHANGED <<relays, held, taskPc, ch, remaining, ctxDone,
                   got, scoreVars, selectVars, restVars>>

FetchCtxDone_missing ==
    /\ FALSE
    /\ UNCHANGED vars

FetchCtxDone ==
    /\ fetchPc = "loop"
    /\ remaining > 0
    /\ ctxDone
    /\ fetchPc' = "returned"
    /\ UNCHANGED <<relays, held, taskPc, ch, remaining, bestURL, bestEvt,
                   ctxDone, got, scoreVars, selectVars, restVars>>

\* remaining = 0 ends the loop, return bestURL, bestEvt
FetchLoopExit ==
    /\ fetchPc = "loop"
    /\ remaining = 0
    /\ fetchPc' = "returned"
    /\ UNCHANGED <<relays, held, taskPc, ch, remaining, bestURL, bestEvt,
                   ctxDone, got, scoreVars, selectVars, restVars>>

\* the deadline of ctx passes (or ctx is cancelled)
DeadlineFires ==
    /\ fetchPc # "idle"
    /\ ~ctxDone
    /\ ctxDone' = TRUE
    /\ UNCHANGED <<relays, held, taskPc, ch, remaining, bestURL, bestEvt,
                   fetchPc, got, scoreVars, selectVars, restVars>>

----------------------------------------------------------------------------
(* classifyRelay, ShouldPublishTo and normalizeRelayURL applied to one     *)
(* address                                                                 *)

ClassifyIdle ==
    /\ addr = <<>> /\ kind = 0 /\ purpose = "none" /\ publishOk = FALSE
    /\ normal = <<>> /\ renormal = <<>> /\ classPc = "idle"

otherThanClass ==
    <<scoreVars, selectVars, fetchVars, probeVars, runVars, checkVars,
      setupVars,
      discVars>>

CallClassifyRelay ==
    /\ classPc = "call"
    /\ purpose' = classifyRelay(addr)
    /\ classPc' = "classified"
    /\ UNCHANGED <<addr, kind, publishOk, normal, renormal, otherThanClass>>

CallShouldPublishTo ==
    /\ classPc = "classified"
    /\ publishOk' = ShouldPublishTo(addr, kind)
    /\ classPc' = "asked"
    /\ UNCHANGED <<addr, kind, purpose, normal, renormal, otherThanClass>>

CallNormalizeRelayURL ==
    /\ classPc = "asked"
    /\ normal' = normalizeRelayURL(addr)
    /\ classPc' = "normalized"
    /\ UNCHANGED <<addr, kind, purpose, publishOk, renormal, otherThanClass>>

\* normalizeRelayURL applied to its own result
CallNormalizeAgain ==
    /\ classPc = "normalized"
    /\ renormal' = normalizeRelayURL(normal)
    /\ classPc' = "done"
    /\ UNCHANGED <<addr, kind, purpose, publishOk, normal, otherThanClass>>

----------------------------------------------------------------------------
(* ScoreRelay: one relay probed and scored                                 *)

\* the Issues slice of calculateRelayScore's parameter when it returns; the
\* parameter is a copy of the caller's record.  "slow" stands for the
\* formatted "slow (<n>ms)"
calculateRelayScore_Issues(r) ==
    IF ~r.Reachable THEN r.Issues \o <<"unreachable">>
    ELSE r.Issues
         \o (IF r.HasNIP11 THEN <<>> ELSE <<"no NIP-11">>)
         \o (IF r.LatencyMs < 2000 THEN <<>> ELSE <<"slow">>)
         \o (IF r.AuthRequired THEN <<"auth required">> ELSE <<>>)
         \o (IF r.PaymentRequired THEN <<"payment required">> ELSE <<>>)

NoInfo == [present |-> FALSE, hasLimitation |-> FALSE,
           AuthRequired |-> FALSE, PaymentRequired |-> FALSE]
\* the documents fetchNIP11 can decode
RelayInfos ==
    {[present |-> TRUE, hasLimitation |-> FALSE,
      AuthRequired |-> FALSE, PaymentRequired |-> FALSE]} \cup
    {[present |-> TRUE, hasLimitation |-> TRUE,
      AuthRequired |-> a, PaymentRequired |-> b] : a, b \in BOOLEAN}
ProbeLatencies == {0, 150, 2500}
\* results of fetchNIP11: an error, or a document and the time it took
NIP11Failed == [ok |-> FALSE, info |-> NoInfo, latency |-> 0]
NIP11Results ==
    {NIP11Failed} \cup
    {[ok |-> TRUE, info |-> i, latency |-> l] :
        i \in RelayInfos, l \in ProbeLatencies}
\* results of testRelayReadWrite
WSResults == [canConnect : BOOLEAN, latency : ProbeLatencies]
NoWS == [canConnect |-> FALSE, latency |-> 0]
ProbeURLs == {purplepag, nosLol, nwcExample}

NoProbe ==
    [URL |-> <<>>, Purpose |-> "general", Reachable |-> FALSE,
     LatencyMs |-> 0, Info |-> NoInfo, HasNIP11 |-> FALSE,
     SupportsRead |-> FALSE, SupportsWrite |-> FALSE,
     AuthRequired |-> FALSE, PaymentRequired |-> FALSE, Score |-> 0,
     Issues |-> <<>>]

ProbeIdle ==
    /\ probeURL = <<>> /\ nip11 = NIP11Failed /\ ws = NoWS
    /\ probed = NoProbe /\ probePc = "idle"

otherThanProbe ==
    <<scoreVars, selectVars, fetchVars, classVars, runVars, checkVars,
      setupVars,
      discVars>>

\* the record is built and classified, and fetchNIP11 returns
ProbeNIP11 ==
    /\ probePc = "call"
    /\ \E res \in NIP11Results :
        LET rs0 == [NoProbe EXCEPT !.URL = probeURL,
                                   !.Purpose = classifyRelay(probeURL)]
        IN  /\ nip11' = res
            /\ probed' =
                IF res.ok /\ res.info.present
                THEN [rs0 EXCEPT
                        !.HasNIP11 = TRUE,
                        !.Info = res.info,
                        !.LatencyMs = res.latency,
                        !.AuthRequired =
                            IF res.info.hasLimitation
                            THEN res.info.AuthRequired ELSE FALSE,
                        !.PaymentRequired =
                            IF res.info.hasLimitation
                            THEN res.info.PaymentRequired ELSE FALSE]
                ELSE rs0
    /\ probePc' = "ws"
    /\ UNCHANGED <<probeURL, ws, otherThanProbe>>

\* testRelayReadWrite returns
ProbeWebSocket ==
    /\ probePc = "ws"
    /\ \E res \in WSResults :
        /\ ws' = res
        /\ probed' =
            IF res.canConnect
            THEN [probed EXCEPT
                    !.Reachable = TRUE,
                    !.LatencyMs =
                        IF probed.LatencyMs = 0 THEN res.latency ELSE @,
                    !.SupportsRead = TRUE,
                    !.SupportsWrite = TRUE]
            ELSE [probed EXCEPT !.Reachable = FALSE]
    /\ probePc' = "score"
    /\ UNCHANGED <<probeURL, nip11, otherThanProbe>>

\* rs.Score = calculateRelayScore(rs), and ScoreRelay returns rs
ProbeScore ==
    /\ probePc = "score"
    /\ probed' = [probed EXCEPT !.Score = calculateRelayScore(probed)]
    /\ probePc' = "done"
    /\ UNCHANGED <<probeURL, nip11, ws, otherThanProbe>>

----------------------------------------------------------------------------
(* A check run: connectCheckRelays, then fetchKindFrom once per kind over  *)
(* the connections it returned, then the deferred Close of each            *)

Range(f) == {f[i] : i \in DOMAIN f}

Configured == SubSeq(defaultRelays, 1, Min({MaxConfigured, Len(defaultRelays)}))
ConfiguredSet == Range(Configured)
Calls == 1..MaxFetches

RunIdle ==
    /\ connTask = [p \in ConfiguredSet |-> "idle"]
    /\ conn = [p \in ConfiguredSet |-> "none"]
    /\ connCtx = [p \in ConfiguredSet |-> "none"]
    /\ connCh = <<>> /\ checkRelays = <<>> /\ opened = 0 /\ fetches = 0
    /\ rtask = [k \in Calls |-> [p \in ConfiguredSet |-> "none"]]
    /\ runCtxDone = FALSE /\ runPc = "idle" /\ queriedClosed = FALSE

otherThanRun ==
    <<scoreVars, selectVars, fetchVars, classVars, probeVars, checkVars,
      setupVars,
      discVars>>

\* connectCheckRelays starts one goroutine per relay, each under its own
\* context with a timeout
RunConnectCall ==
    /\ runPc = "call"
    /\ connTask' = [p \in ConfiguredSet |-> "start"]
    /\ connCtx' = [p \in ConfiguredSet |-> "live"]
    /\ runPc' = "collect"
    /\ UNCHANGED <<conn, connCh, checkRelays, opened, fetches, rtask,
                   runCtxDone, queriedClosed, otherThanRun>>

\* a connect goroutine runs to its end with nostr.RelayConnect succeeding:
\* it sends the relay, returns, and its deferred cancel() runs
RunRelayConnected(p) ==
    /\ connTask[p] = "start"
    /\ ~runCtxDone
    /\ conn' = [conn EXCEPT ![p] = "open"]
    /\ opened' = opened + 1
    /\ connCh' = Append(connCh, [url |-> p, ok |-> TRUE])
    /\ connTask' = [connTask EXCEPT ![p] = "exited"]
    /\ connCtx' = [connCtx EXCEPT ![p] = "cancelled"]
    /\ UNCHANGED <<checkRelays, fetches, rtask, runCtxDone, runPc,
                   queriedClosed, otherThanRun>>

\* a connect goroutine runs to its end with nostr.RelayConnect failing
\* (refused, or its context timed out): it sends nil, returns, and its
\* deferred cancel() runs
RunRelayFailed(p) ==
    /\ connTask[p] = "start"
    /\ connCh' = Append(connCh, [url |-> p, ok |-> FALSE])
    /\ connTask' = [connTask EXCEPT ![p] = "exited"]
    /\ connCtx' = [connCtx EXCEPT ![p] = "cancelled"]
    /\ UNCHANGED <<conn, checkRelays, opened, fetches, rtask,
                   runCtxDone, runPc, queriedClosed, otherThanRun>>

\* the library closes a connection whose context is done
RunLibClose(p) ==
    /\ conn[p] = "open"
    /\ connCtx[p] = "cancelled" \/ runCtxDone
    /\ conn' = [conn EXCEPT ![p] = "closed"]
    /\ UNCHANGED <<connTask, connCtx, connCh, checkRelays, opened, fetches,
                   rtask, runCtxDone, runPc, queriedClosed, otherThanRun>>

\* the collecting loop receives one result
RunCollect ==
    /\ runPc = "collect"
    /\ connCh # <<>>
    /\ connCh' = Tail(connCh)
    /\ checkRelays' = IF Head(connCh).ok
                      THEN Append(checkRelays, Head(connCh).url)
                      ELSE checkRelays
    /\ UNCHANGED <<connTask, conn, connCtx, opened, fetches, rtask,
                   runCtxDone, runPc, queriedClosed, otherThanRun>>

\* one result per relay was received: connectCheckRelays returns; runCheck
\* exits when no relay connected
RunConnectReturn ==
    /\ runPc = "collect"
    /\ connCh = <<>>
    /\ \A p \in ConfiguredSet : connTask[p] = "exited"
    /\ runPc' = IF checkRelays = <<>> THEN "exit" ELSE "ready"
    /\ UNCHANGED <<connTask, conn, connCtx, connCh, checkRelays, opened,
                   fetches, rtask, runCtxDone, queriedClosed, otherThanRun>>

\* the query a relay task issues sees the connection open or closed
Queried(p) == IF conn[p] = "open" THEN "querying" ELSE "done"

RunFetchCall_reconnects ==
    /\ runPc = "ready"
    /\ fetches < MaxFetches
    /\ fetches' = fetches + 1
    /\ opened' = opened + Len(checkRelays)
    /\ rtask' = [rtask EXCEPT ![fetches + 1] =
                    [p \in ConfiguredSet |->
                        IF p \in Range(checkRelays) THEN Queried(p)
                        ELSE "none"]]
    /\ queriedClosed' =
        (queriedClosed \/
         (~runCtxDone /\ \E p \in Range(checkRelays) : conn[p] # "open"))
    /\ runPc' = "fetching"
    /\ UNCHANGED <<connTask, conn, connCtx, connCh, checkRelays,
                   runCtxDone, otherThanRun>>

\* fetchKindFrom starts one task per connected relay, and each task issues
\* its query on the relay's connection; on a closed connection the query
\* yields nothing and the task reports at once
RunFetchCall ==
    /\ runPc = "ready"
    /\ fetches < MaxFetches
    /\ fetches' = fetches + 1
    /\ rtask' = [rtask EXCEPT ![fetches + 1] =
                    [p \in ConfiguredSet |->
                        IF p \in Range(checkRelays) THEN Queried(p)
                        ELSE "none"]]
    /\ queriedClosed' =
        (queriedClosed \/
         (~runCtxDone /\ \E p \in Range(checkRelays) : conn[p] # "open"))
    /\ runPc' = "fetching"
    /\ UNCHANGED <<connTask, conn, connCtx, connCh, checkRelays, opened,
                   runCtxDone, otherThanRun>>

\* a task's query ends and the task reports
RunTaskDone(k, p) ==
    /\ rtask[k][p] = "querying"
    /\ rtask' = [rtask EXCEPT ![k][p] = "done"]
    /\ UNCHANGED <<connTask, conn, connCtx, connCh, checkRelays, opened,
                   fetches, runCtxDone, runPc, queriedClosed, otherThanRun>>

\* fetchKindFrom returns: every task reported, or the run's context is done
RunFetchReturn ==
    /\ runPc = "fetching"
    /\ \/ \A p \in ConfiguredSet :
            rtask[fetches][p] \in {"none", "done"}
       \/ runCtxDone
    /\ runPc' = "ready"
    /\ UNCHANGED <<connTask, conn, connCtx, connCh, checkRelays, opened,
                   fetches, rtask, runCtxDone, queriedClosed, otherThanRun>>

\* runBackup gives every fetchKindFrom call a context of its own, which can
\* end while relay tasks of the call are still draining their query
RunKindDeadline ==
    /\ runPc = "fetching"
    /\ \E p \in ConfiguredSet : rtask[fetches][p] = "querying"
    /\ runPc' = "ready"
    /\ UNCHANGED <<connTask, conn, connCtx, connCh, checkRelays, opened,
                   fetches, rtask, runCtxDone, queriedClosed, otherThanRun>>

\* the run ends: the deferred loop closes every returned connection
RunFinish ==
    /\ runPc = "ready"
    /\ conn' = [p \in ConfiguredSet |->
                    IF p \in Range(checkRelays) THEN "closed" ELSE conn[p]]
    /\ runPc' = "exit"
    /\ UNCHANGED <<connTask, connCtx, connCh, checkRelays, opened, fetches,
                   rtask, runCtxDone, queriedClosed, otherThanRun>>

\* the run's timeout passes
RunDeadline ==
    /\ runPc \in {"collect", "ready", "fetching"}
    /\ ~runCtxDone
    /\ runCtxDone' = TRUE
    /\ UNCHANGED <<connTask, conn, connCtx, connCh, checkRelays, opened,
                   fetches, rtask, runPc, queriedClosed, otherThanRun>>

----------------------------------------------------------------------------
(* runCheck: the audit of one identity, its score and its exit code        *)

CheckResult_MaxScore == 8

\* the kind 0 document the relays hold for the identity, by which fields
\* are set; NIP05 is a root identifier, another identifier, or unset
NoProfile ==
    [found |-> FALSE, Name |-> FALSE, DisplayName |-> FALSE, About |-> FALSE,
     Picture |-> FALSE, Banner |-> FALSE, NIP05 |-> "unset", LUD16 |-> FALSE]
ProfileInputs ==
    {NoProfile} \cup
    [found : {TRUE}, Name : BOOLEAN, DisplayName : BOOLEAN, About : BOOLEAN,
     Picture : BOOLEAN, Banner : BOOLEAN, NIP05 : {"unset", "root", "named"},
     LUD16 : BOOLEAN]

\* results of probeImage with the hosting tier of the URL
ImageProbes ==
    [reach : {"unreachable", "notfound", "httperror"},
     tier : {"third-party"}, SizeWarn : {FALSE}] \cup
    [reach : {"ok"}, tier : {"blossom", "own", "third-party"},
     SizeWarn : BOOLEAN]

\* the kind 10002 document: absent, or its number of r tags (2 stands for
\* two or more), whether all are bare, and how many of them are reachable
RelayLists ==
    {[found |-> FALSE, relayCount |-> 0, allBare |-> TRUE, reachable |-> 0]}
    \cup
    {[found |-> TRUE, relayCount |-> n, allBare |-> b, reachable |-> r] :
        n \in 0..2, b \in BOOLEAN, r \in 0..2}

\* the wallet documents: which wallet kind is found, whether kind 10019 is,
\* its number of mint tags and how many of those mints are reachable
Wallets ==
    {[walletKind |-> 0, nutzap |-> FALSE, mints |-> 0, reachable |-> 0]}
    \cup
    {[walletKind |-> w, nutzap |-> z, mints |-> m, reachable |-> r] :
        w \in {17375, 37375}, z \in BOOLEAN, m \in 0..2, r \in 0..2}

NoChecks == [pass |-> 0, warn |-> 0, fail |-> 0]

\* the number of items of each status after addCheck
addCheck(c, status) == [c EXCEPT ![status] = @ + 1]

CheckIdle ==
    /\ profile = NoProfile /\ checks = NoChecks /\ checkScore = 0
    /\ exitCode = -1 /\ checkPc = "idle"

otherThanCheck ==
    <<scoreVars, selectVars, fetchVars, classVars, probeVars, runVars,
      setupVars,
      discVars>>

\* the target resolves and connectCheckRelays returns some relay, or
\* runCheck ends in fatal
CheckStart ==
    /\ checkPc = "start"
    /\ \E ok \in BOOLEAN :
        IF ok
        THEN checkPc' = "profile" /\ exitCode' = exitCode
        ELSE checkPc' = "fatal" /\ exitCode' = 1
    /\ UNCHANGED <<profile, checks, checkScore, otherThanCheck>>

\* check 1: profile completeness
CheckProfile ==
    /\ checkPc = "profile"
    /\ LET fields == Cardinality({f \in {"Name", "DisplayName", "About",
                                         "Picture", "Banner"} : profile[f]})
       IN  IF profile.found
           THEN /\ checks' = addCheck(checks,
                                IF fields >= 3 THEN "pass"
                                ELSE IF fields >= 1 THEN "warn" ELSE "fail")
                /\ checkScore' = IF fields >= 1 THEN checkScore + 1
                                 ELSE checkScore
                /\ checkPc' = "nip05"
           ELSE /\ checks' = addCheck(addCheck(addCheck(checks, "fail"),
                                               "fail"), "fail")
                /\ checkScore' = checkScore
                /\ checkPc' = "relay_list"
    /\ UNCHANGED <<profile, exitCode, otherThanCheck>>

\* check 2: NIP-05
CheckNIP05 ==
    /\ checkPc = "nip05"
    /\ \E verified \in BOOLEAN :
        IF profile.NIP05 # "unset"
        THEN IF verified
             THEN checks' = addCheck(checks, "pass")
                  /\ checkScore' = checkScore + 1
             ELSE checks' = addCheck(checks, "warn")
                  /\ checkScore' = checkScore
        ELSE checks' = addCheck(checks, "fail") /\ checkScore' = checkScore
    /\ checkPc' = "picture"
    /\ UNCHANGED <<profile, exitCode, otherThanCheck>>

\* checkProfileImages, one image per step: picture, then banner
CheckProfileImage ==
    /\ checkPc \in {"picture", "banner"}
    /\ \E info \in ImageProbes :
        /\ info.tier = "own" => profile.NIP05 = "root"
        /\ LET set == IF checkPc = "picture" THEN profile.Picture
                      ELSE profile.Banner
           IN  IF ~set \/ info.reach \in {"unreachable", "notfound"}
               THEN checks' = addCheck(checks, "fail")
                    /\ checkScore' = checkScore
               ELSE IF info.reach = "httperror"
               THEN checks' = addCheck(checks, "warn")
                    /\ checkScore' = checkScore
               ELSE /\ checks' = addCheck(checks,
                            IF info.SizeWarn THEN "warn"
                            ELSE IF info.tier = "third-party" THEN "warn"
                            ELSE "pass")
                    /\ checkScore' = IF info.tier \in {"blossom", "own"}
                                     THEN checkScore + 1 ELSE checkScore
    /\ checkPc' = IF checkPc = "picture" THEN "banner" ELSE "lud16"
    /\ UNCHANGED <<profile, exitCode, otherThanCheck>>

\* check 3: lightning address
CheckLUD16 ==
    /\ checkPc = "lud16"
    /\ \E verified \in BOOLEAN :
        IF profile.LUD16
        THEN IF verified
             THEN checks' = addCheck(checks, "pass")
                  /\ checkScore' = checkScore + 1
             ELSE checks' = addCheck(checks, "warn")
                  /\ checkScore' = checkScore
        ELSE checks' = addCheck(checks, "fail") /\ checkScore' = checkScore
    /\ checkPc' = "relay_list"
    /\ UNCHANGED <<profile, exitCode, otherThanCheck>>

\* check 4: relay list, its markers and the quality of its relays
CheckRelayList ==
    /\ checkPc = "relay_list"
    /\ \E l \in RelayLists :
        /\ l.reachable <= l.relayCount
        /\ LET listed == addCheck(checks,
                            IF ~l.found THEN "fail"
                            ELSE IF l.relayCount >= 2 THEN "pass"
                            ELSE IF l.relayCount > 0 THEN "warn" ELSE "fail")
               marked == IF l.found /\ l.relayCount > 0
                         THEN addCheck(listed,
                                IF l.allBare THEN "warn" ELSE "pass")
                         ELSE listed
               scored == IF l.found /\ l.relayCount > 0
                         THEN addCheck(marked,
                                IF l.reachable = l.relayCount THEN "pass"
                                ELSE IF l.reachable > 0 THEN "warn"
                                ELSE "fail")
                         ELSE marked
           IN  /\ checks' = scored
               /\ checkScore' = IF l.found /\ l.relayCount >= 2
                                THEN checkScore + 1 ELSE checkScore
    /\ checkPc' = "dm_relays"
    /\ UNCHANGED <<profile, exitCode, otherThanCheck>>

\* check 4b: DM relay list
CheckDMRelays ==
    /\ checkPc = "dm_relays"
    /\ \E found \in BOOLEAN, tagged \in BOOLEAN :
        checks' = addCheck(checks, IF found /\ tagged THEN "pass" ELSE "warn")
    /\ checkPc' = "follow_list"
    /\ UNCHANGED <<profile, checkScore, exitCode, otherThanCheck>>

\* check 5: follow list
CheckFollowList ==
    /\ checkPc = "follow_list"
    /\ \E found \in BOOLEAN, follows \in BOOLEAN :
        IF found
        THEN IF follows
             THEN checks' = addCheck(checks, "pass")
                  /\ checkScore' = checkScore + 1
             ELSE checks' = addCheck(checks, "warn")
                  /\ checkScore' = checkScore
        ELSE checks' = addCheck(checks, "fail") /\ checkScore' = checkScore
    /\ checkPc' = "nip60_wallet"
    /\ UNCHANGED <<profile, exitCode, otherThanCheck>>

\* check 6: wallet, nutzap information and mints
CheckWallet ==
    /\ checkPc = "nip60_wallet"
    /\ \E w \in Wallets :
        /\ w.reachable <= w.mints
        /\ ~w.nutzap => w.mints = 0
        /\ IF w.walletKind # 0
           THEN LET found  == addCheck(checks, "pass")
                    minted == IF w.nutzap /\ w.mints > 0
                              THEN addCheck(found,
                                     IF w.reachable = w.mints THEN "pass"
                                     ELSE "warn")
                              ELSE found
                IN  /\ checks' = addCheck(minted,
                                    IF w.nutzap THEN "pass" ELSE "warn")
                    /\ checkScore' = checkScore + 1
           ELSE checks' = addCheck(checks, "fail")
                /\ checkScore' = checkScore
    /\ checkPc' = "report"
    /\ UNCHANGED <<profile, exitCode, otherThanCheck>>

\* the result is printed; os.Exit(1) when the score is short of the maximum
CheckExit ==
    /\ checkPc = "report"
    /\ exitCode' = IF checkScore < CheckResult_MaxScore THEN 1 ELSE 0
    /\ checkPc' = "exit"
    /\ UNCHANGED <<profile, checks, checkScore, otherThanCheck>>

----------------------------------------------------------------------------
(* runSetup: key, external storage of the nsec, then the publishes         *)

\* the flags of setup that decide its path
SetupOptions ==
    [key : {"sec", "stdin", "generate"}, nsecCmd : BOOLEAN,
     noWallet : BOOLEAN]
NoOptions == [key |-> "generate", nsecCmd |-> FALSE, noWallet |-> FALSE]

\* results of runNsecCmd: nil, or the step that failed
NsecCmdResults == {"ok", "pipe", "start", "write", "wait"}

\* results of the wallet step: selectMints fails, setupWallet fails before
\* its first publish, fails between its two publishes, or succeeds
WalletResults == {"no mints", "wallet event", "nutzap event", "ok"}

SetupIdle ==
    /\ opts = NoOptions /\ nsecStored = "not run" /\ published = <<>>
    /\ setupExit = -1 /\ setupPc = "idle"

otherThanSetup ==
    <<scoreVars, selectVars, fetchVars, classVars, probeVars, runVars,
      checkVars,
      discVars>>

\* step 1: the secret key is parsed or generated; fatal on an invalid key
SetupLoadKey ==
    /\ setupPc = "key"
    /\ \E valid \in BOOLEAN :
        IF opts.key # "generate" /\ ~valid
        THEN setupPc' = "fatal" /\ setupExit' = 1
        ELSE setupPc' = "nsec_cmd" /\ setupExit' = setupExit
    /\ UNCHANGED <<opts, nsecStored, published, otherThanSetup>>

SetupNsecCmd_ignoresError ==
    /\ setupPc = "nsec_cmd"
    /\ IF opts.nsecCmd
       THEN \E res \in NsecCmdResults : nsecStored' = res
       ELSE nsecStored' = nsecStored
    /\ setupPc' = "kind 0"
    /\ UNCHANGED <<opts, published, setupExit, otherThanSetup>>

\* the nsec is piped to the external command when one is given; fatal when
\* runNsecCmd returns an error
SetupNsecCmd ==
    /\ setupPc = "nsec_cmd"
    /\ IF opts.nsecCmd
       THEN \E res \in NsecCmdResults :
               /\ nsecStored' = res
               /\ IF res # "ok"
                  THEN setupPc' = "fatal" /\ setupExit' = 1
                  ELSE setupPc' = "kind 0" /\ setupExit' = setupExit
       ELSE /\ nsecStored' = nsecStored
            /\ setupPc' = "kind 0" /\ setupExit' = setupExit
    /\ UNCHANGED <<opts, published, otherThanSetup>>

\* steps 2 to 4: publishToRelays for kind 0, kind 10002 and kind 3
SetupPublish ==
    /\ setupPc \in {"kind 0", "kind 10002", "kind 3"}
    /\ published' = Append(published,
                        IF setupPc = "kind 0" THEN 0
                        ELSE IF setupPc = "kind 10002" THEN 10002 ELSE 3)
    /\ setupPc' = IF setupPc = "kind 0" THEN "kind 10002"
                  ELSE IF setupPc = "kind 10002" THEN "kind 3"
                  ELSE "wallet"
    /\ UNCHANGED <<opts, nsecStored, setupExit, otherThanSetup>>

\* step 5: selectMints and setupWallet, which publishes kind 17375 and then
\* kind 10019
SetupWallet ==
    /\ setupPc = "wallet"
    /\ IF opts.noWallet
       THEN published' = published
       ELSE \E res \in WalletResults :
               published' =
                   IF res = "ok" THEN published \o <<17375, 10019>>
                   ELSE IF res = "nutzap event" THEN Append(published, 17375)
                   ELSE published
    /\ setupPc' = "kind 1"
    /\ UNCHANGED <<opts, nsecStored, setupExit, otherThanSetup>>

\* step 6: the first note is published and runSetup returns
SetupHello ==
    /\ setupPc = "kind 1"
    /\ published' = Append(published, 1)
    /\ setupPc' = "done"
    /\ setupExit' = 0
    /\ UNCHANGED <<opts, nsecStored, otherThanSetup>>

----------------------------------------------------------------------------
(* DiscoverRelays and DiscoverDMRelays: the relay lists of the reference   *)
(* accounts are sampled from the seed relays and tallied                   *)

wellConnectedNpubs == <<"fiatjaf", "jb55", "NVK", "odell", "jack">>
Accounts == 1..Min({MaxAccounts, Len(wellConnectedNpubs)})
seedRelays == SubSeq(defaultRelays, 1, Min({MaxSeeds, Len(defaultRelays)}))

DefaultDMRelays == <<>>

\* the tag read by the sampling task: "r" of kind 10002, "relay" of 10050
TagName == IF discMode = "dm" THEN "relay" ELSE "r"

\* the tag lists of the documents a seed can return
Docs ==
    { << <<TagName, nosLol>> >>,
      << <<TagName, nosLol>>, <<TagName, nosLol \o <<"/">>>> >>,
      << <<TagName, relayDamus \o <<" ">>>>, <<TagName, nosLol>> >>,
      << <<TagName>>, <<"p", relayDamus>>,
         <<TagName, httpsScheme \o Host(nosLol)>> >> }

\* the addresses a task tallies for one document, in tag order: the loop
\* over evt.Tags without its increments
RECURSIVE Listed(_)
Listed(tags) ==
    IF tags = <<>> THEN <<>>
    ELSE LET tag  == Head(tags)
             rest == Listed(Tail(tags))
         IN  IF Len(tag) >= 2 /\ tag[1] = TagName
             THEN LET url == normalizeRelayURL(tag[2])
                  IN  IF url # <<>> THEN <<url>> \o rest ELSE rest
             ELSE rest

DiscURLs == {nosLol, relayDamus}
\* the scores ScoreRelays gives the discovered addresses, in hundredths
DiscScores == {0, 50, 100}

\* the orders in which a range over a map, or a sort of equal elements,
\* can leave the elements of S
Perms(S) ==
    { q \in [1..Cardinality(S) -> S] : \A x \in S : \E i \in DOMAIN q : q[i] = x }

NoTask == [pc |-> "idle", seed |-> 0, last |-> "none", todo |-> <<>>,
           tmp |-> 0]

DiscoverIdle ==
    /\ discMode = "none"
    /\ dtask = [a \in Accounts |-> NoTask]
    /\ mu = 0
    /\ relaySet = [u \in DiscURLs |-> 0]
    /\ discCtxDone = FALSE /\ scores = <<>> /\ discovered = <<>>
    /\ discPc = "idle"
    /\ listedBy = [u \in DiscURLs |-> {}]
    /\ incs = [u \in DiscURLs |-> 0]

otherThanDiscover ==
    <<scoreVars, selectVars, fetchVars, classVars, probeVars, runVars,
      checkVars, setupVars>>

\* pc of a task that leaves the loop over the seeds, or goes on with it
AfterSeed(n) == IF n = Len(seedRelays) THEN "done" ELSE "seeds"

\* RelayConnect to the next seed fails: continue with the seed after it
DiscSeedDown(a) ==
    /\ dtask[a].pc = "seeds"
    /\ dtask' = [dtask EXCEPT ![a] =
                    [@ EXCEPT !.seed = @ + 1, !.last = "down",
                              !.pc = AfterSeed(dtask[a].seed + 1)]]
    /\ UNCHANGED <<discMode, mu, relaySet, discCtxDone, scores, discovered,
                   discPc, listedBy, incs, otherThanDiscover>>

\* the next seed is connected and its query ends without an event: the
\* task closes the connection and breaks out of the loop over the seeds
DiscSeedLacks(a) ==
    /\ dtask[a].pc = "seeds"
    /\ ~discCtxDone
    /\ dtask' = [dtask EXCEPT ![a] =
                    [@ EXCEPT !.seed = @ + 1, !.last = "lacks",
                              !.pc = "done"]]
    /\ UNCHANGED <<discMode, mu, relaySet, discCtxDone, scores, discovered,
                   discPc, listedBy, incs, otherThanDiscover>>

\* the next seed is connected and its query yields the account's document
DiscSeedHolds(a) ==
    /\ dtask[a].pc = "seeds"
    /\ ~discCtxDone
    /\ \E d \in Docs :
        LET l == Listed(d) IN
        /\ dtask' = [dtask EXCEPT ![a] =
                        [@ EXCEPT !.seed = @ + 1, !.last = "holds",
                                  !.todo = l,
                                  !.pc = IF l = <<>> THEN "done" ELSE "tags"]]
        /\ listedBy' = [u \in DiscURLs |->
                            IF u \in Range(l) THEN listedBy[u] \cup {a}
                            ELSE listedBy[u]]
    /\ UNCHANGED <<discMode, mu, relaySet, discCtxDone, scores, discovered,
                   discPc, incs, otherThanDiscover>>

\* mu.Lock() and the read of relaySet[url]
DiscLock_noMutex(a) ==
    /\ dtask[a].pc = "tags"
    /\ mu' = a
    /\ dtask' = [dtask EXCEPT ![a] =
                    [@ EXCEPT !.tmp = relaySet[Head(dtask[a].todo)],
                              !.pc = "locked"]]
    /\ UNCHANGED <<discMode, relaySet, discCtxDone, scores, discovered,
                   discPc, listedBy, incs, otherThanDiscover>>

DiscLock(a) ==
    /\ dtask[a].pc = "tags"
    /\ mu = 0
    /\ mu' = a
    /\ dtask' = [dtask EXCEPT ![a] =
                    [@ EXCEPT !.tmp = relaySet[Head(dtask[a].todo)],
                              !.pc = "locked"]]
    /\ UNCHANGED <<discMode, relaySet, discCtxDone, scores, discovered,
                   discPc, listedBy, incs, otherThanDiscover>>

\* the write of relaySet[url] and mu.Unlock(); after the last tag the task
\* closes the connection and breaks out of the loop over the seeds
DiscStore(a) ==
    /\ dtask[a].pc = "locked"
    /\ LET url == Head(dtask[a].todo) IN
        /\ relaySet' = [relaySet EXCEPT ![url] = dtask[a].tmp + 1]
        /\ incs' = [incs EXCEPT ![url] = @ + 1]
    /\ mu' = 0
    /\ dtask' = [dtask EXCEPT ![a] =
                    [@ EXCEPT !.todo = Tail(@),
                              !.pc = IF Tail(dtask[a].todo) = <<>>
                                     THEN "done" ELSE "tags"]]
    /\ UNCHANGED <<discMode, discCtxDone, scores, discovered, discPc,
                   listedBy, otherThanDiscover>>

\* the deadline of ctx passes
DiscDeadline ==
    /\ discPc = "sampling"
    /\ ~discCtxDone
    /\ discCtxDone' = TRUE
    /\ UNCHANGED <<discMode, dtask, mu, relaySet, scores, discovered, discPc,
                   listedBy, incs, otherThanDiscover>>

\* wg.Wait() returns
DiscWait ==
    /\ discPc = "sampling"
    /\ \A a \in Accounts : dtask[a].pc = "done"
    /\ discPc' = "waited"
    /\ UNCHANGED <<discMode, dtask, mu, relaySet, discCtxDone, scores,
                   discovered, listedBy, incs, otherThanDiscover>>

\* the keys of the map
Keys == { u \in DiscURLs : relaySet[u] > 0 }

\* DiscoverRelays: the keys are collected in the order the range over the
\* map yields them and ScoreRelays scores them
DiscScore ==
    /\ discPc = "waited"
    /\ discMode = "relays"
    /\ \E urls \in Perms(Keys) :
       \E sc \in [DOMAIN urls -> DiscScores] :
          scores' = [i \in DOMAIN urls |-> [URL |-> urls[i], Score |-> sc[i]]]
    /\ discPc' = "scored"
    /\ UNCHANGED <<discMode, dtask, mu, relaySet, discCtxDone, discovered,
                   listedBy, incs, otherThanDiscover>>

\* sort.Slice with scores[i].Score > scores[j].Score: the elements in
\* non-increasing order of Score, equal ones in any order
Sorted(recs) ==
    { q \in Perms(Range(recs)) :
        \A i, j \in DOMAIN q : i < j => q[i].Score >= q[j].Score }

DiscSort ==
    /\ discPc = "scored"
    /\ discovered' \in Sorted(scores)
    /\ discPc' = "returned"
    /\ UNCHANGED <<discMode, dtask, mu, relaySet, discCtxDone, scores,
                   listedBy, incs, otherThanDiscover>>

\* DiscoverDMRelays: the addresses counted twice or more, or the default
DiscDMReturn ==
    /\ discPc = "waited"
    /\ discMode = "dm"
    /\ LET twice == { u \in Keys : relaySet[u] >= 2 } IN
        IF twice = {} THEN discovered' = DefaultDMRelays
        ELSE discovered' \in Perms(twice)
    /\ discPc' = "returned"
    /\ UNCHANGED <<discMode, dtask, mu, relaySet, discCtxDone, scores,
                   listedBy, incs, otherThanDiscover>>

RestIdle ==
    /\ ClassifyIdle /\ ProbeIdle /\ RunIdle /\ CheckIdle /\ SetupIdle
    /\ DiscoverIdle

----------------------------------------------------------------------------
(* Specifications                                                          *)

ScoreInit ==
    /\ rs \in ScoreInputs /\ score = 0 /\ scorePc = "call"
    /\ SelectIdle /\ FetchIdle /\ RestIdle

ScoreNext == CalcScore

ScoreSpec == ScoreInit /\ [][ScoreNext]_vars

SelectInit ==
    /\ candidates \in CandidateLists
    /\ maxCount \in -1..MaxMaxCount
    /\ selection = NoSelection
    /\ selectPc = "call"
    /\ ScoreIdle /\ FetchIdle /\ RestIdle

SelectNext == CallSelectRelays

SelectSpec == SelectInit /\ [][SelectNext]_vars

FetchInit ==
    /\ relays \in ConnectedSets
    /\ held \in [relays -> Events \cup {NilEvt}]
    /\ taskPc = [p \in relays |-> "idle"]
    /\ ch = <<>>
    /\ remaining = 0 /\ bestURL = NoURL /\ bestEvt = NilEvt
    /\ ctxDone = FALSE /\ fetchPc = "call" /\ got = {}
    /\ ScoreIdle /\ SelectIdle /\ RestIdle

FetchNext ==
    \/ FetchCall
    \/ \E p \in relays : TaskSendEvent(p)
    \/ \E p \in relays : TaskSendNone(p)
    \/ FetchRecv
    \/ FetchCtxDone
    \/ FetchLoopExit
    \/ DeadlineFires

FetchSpec == FetchInit /\ [][FetchNext]_vars

\* the goroutine running fetchKindFrom is scheduled; relay tasks and the
\* deadline are not required to make progress
FetchFair ==
    WF_vars(FetchCall \/ FetchRecv \/ FetchCtxDone \/ FetchLoopExit)

FetchLiveSpec == FetchInit /\ [][FetchNext]_vars /\ FetchFair

ClassifyInit ==
    /\ addr \in Addresses /\ kind \in Kinds
    /\ purpose = "none" /\ publishOk = FALSE
    /\ normal = <<>> /\ renormal = <<>> /\ classPc = "call"
    /\ ScoreIdle /\ SelectIdle /\ FetchIdle
    /\ ProbeIdle /\ RunIdle /\ CheckIdle /\ SetupIdle /\ DiscoverIdle

ClassifyNext ==
    \/ CallClassifyRelay
    \/ CallShouldPublishTo
    \/ CallNormalizeRelayURL
    \/ CallNormalizeAgain

ClassifySpec == ClassifyInit /\ [][ClassifyNext]_vars

ProbeInit ==
    /\ probeURL \in ProbeURLs /\ nip11 = NIP11Failed /\ ws = NoWS
    /\ probed = NoProbe /\ probePc = "call"
    /\ ScoreIdle /\ SelectIdle /\ FetchIdle
    /\ ClassifyIdle /\ RunIdle /\ CheckIdle /\ SetupIdle /\ DiscoverIdle

ProbeNext == ProbeNIP11 \/ ProbeWebSocket \/ ProbeScore

ProbeSpec == ProbeInit /\ [][ProbeNext]_vars

RunInit ==
    /\ connTask = [p \in ConfiguredSet |-> "idle"]
    /\ conn = [p \in ConfiguredSet |-> "none"]
    /\ connCtx = [p \in ConfiguredSet |-> "none"]
    /\ connCh = <<>> /\ checkRelays = <<>> /\ opened = 0 /\ fetches = 0
    /\ rtask = [k \in Calls |-> [p \in ConfiguredSet |-> "none"]]
    /\ runCtxDone = FALSE /\ runPc = "call" /\ queriedClosed = FALSE
    /\ ScoreIdle /\ SelectIdle /\ FetchIdle
    /\ ClassifyIdle /\ ProbeIdle /\ CheckIdle /\ SetupIdle /\ DiscoverIdle

RunNext ==
    \/ RunConnectCall
    \/ \E p \in ConfiguredSet : RunRelayConnected(p)
    \/ \E p \in ConfiguredSet : RunRelayFailed(p)
    \/ \E p \in ConfiguredSet : RunLibClose(p)
    \/ RunCollect
    \/ RunConnectReturn
    \/ RunFetchCall
    \/ \E k \in Calls, p \in ConfiguredSet : RunTaskDone(k, p)
    \/ RunFetchReturn
    \/ RunKindDeadline
    \/ RunFinish
    \/ RunDeadline

RunSpec == RunInit /\ [][RunNext]_vars

CheckInit ==
    /\ profile \in ProfileInputs /\ checks = NoChecks /\ checkScore = 0
    /\ exitCode = -1 /\ checkPc = "start"
    /\ ScoreIdle /\ SelectIdle /\ FetchIdle
    /\ ClassifyIdle /\ ProbeIdle /\ RunIdle /\ SetupIdle /\ DiscoverIdle

CheckNext ==
    \/ CheckStart
    \/ CheckProfile
    \/ CheckNIP05
    \/ CheckProfileImage
    \/ CheckLUD16
    \/ CheckRelayList
    \/ CheckDMRelays
    \/ CheckFollowList
    \/ CheckWallet
    \/ CheckExit

CheckSpec == CheckInit /\ [][CheckNext]_vars

SetupInit ==
    /\ opts \in SetupOptions /\ nsecStored = "not run" /\ published = <<>>
    /\ setupExit = -1 /\ setupPc = "key"
    /\ ScoreIdle /\ SelectIdle /\ FetchIdle
    /\ ClassifyIdle /\ ProbeIdle /\ RunIdle /\ CheckIdle /\ DiscoverIdle

SetupNext ==
    \/ SetupLoadKey
    \/ SetupNsecCmd
    \/ SetupPublish
    \/ SetupWallet
    \/ SetupHello

SetupSpec == SetupInit /\ [][SetupNext]_vars

DiscoverInit ==
    /\ discMode \in {"relays", "dm"}
    /\ dtask = [a \in Accounts |-> [NoTask EXCEPT !.pc = AfterSeed(0)]]
    /\ mu = 0
    /\ relaySet = [u \in DiscURLs |-> 0]
    /\ discCtxDone = FALSE /\ scores = <<>> /\ discovered = <<>>
    /\ discPc = "sampling"
    /\ listedBy = [u \in DiscURLs |-> {}]
    /\ incs = [u \in DiscURLs |-> 0]
    /\ ScoreIdle /\ SelectIdle /\ FetchIdle
    /\ ClassifyIdle /\ ProbeIdle /\ RunIdle /\ CheckIdle /\ SetupIdle

DiscoverNext ==
    \/ \E a \in Accounts : DiscSeedDown(a)
    \/ \E a \in Accounts : DiscSeedLacks(a)
    \/ \E a \in Accounts : DiscSeedHolds(a)
    \/ \E a \in Accounts : DiscLock(a)
    \/ \E a \in Accounts : DiscStore(a)
    \/ DiscDeadline
    \/ DiscWait
    \/ DiscScore
    \/ DiscSort
    \/ DiscDMReturn

DiscoverSpec == DiscoverInit /\ [][DiscoverNext]_vars

Spec == FetchSpec

----------------------------------------------------------------------------
(* Properties of fetchKindFrom                                             *)

Returned == fetchPc = "returned"

\* the created_at values among the results of the relays in S
Stamps(S) == { held[p].CreatedAt : p \in {q \in S : ~held[q].isNil} }

\* (bestURL, bestEvt) is a newest result among those of the relays in S,
\* with the relay that sent it, and is ("", nil) only if S sent no event
BestAmong(S) ==
    /\ bestEvt.isNil <=> \A p \in S : held[p].isNil
    /\ bestEvt.isNil => bestURL = NoURL
    /\ ~bestEvt.isNil =>
          /\ bestEvt.CreatedAt = Max(Stamps(S))
          /\ bestURL \in S
          /\ held[bestURL] = bestEvt

\* C1: when the result of every connected relay has been received,
\* fetchKindFrom returns an event with the greatest created_at among all
\* results together with the relay that supplied it, and returns nil only
\* if every relay reported none.
C1_LatestOfAll == (Returned /\ got = relays) => BestAmong(relays)

\* three relays answered with three different timestamps
C1_Witness ==
    /\ Returned /\ got = relays /\ Cardinality(relays) = 3
    /\ Cardinality(Stamps(relays)) = 3
    /\ ~bestEvt.isNil

\* the arrival orders of the results of the connected relays
Orders(S) ==
    { o \in [1..Cardinality(S) -> S] :
        \A i, j \in 1..Cardinality(S) : i # j => o[i] # o[j] }

\* the collecting loop run over the results arriving in order o
RECURSIVE FoldOrder(_, _, _)
FoldOrder(o, i, best) ==
    IF i > Len(o) THEN best
    ELSE FoldOrder(o, i + 1, Absorb(best, fetchResult(o[i], held[o[i]])))

ResultFor(o) == FoldOrder(o, 1, fetchResult(NoURL, NilEvt))

\* the relays holding the newest event
Holders(S) ==
    { p \in S : ~held[p].isNil /\ held[p].CreatedAt = Max(Stamps(S)) }

\* C2 as stated: with every result received, the pair returned is the pair
\* every arrival order of the same results gives.
C2_AnyOrderSamePair ==
    (Returned /\ got = relays) =>
        \A o \in Orders(relays) :
            ResultFor(o) = fetchResult(bestURL, bestEvt)

\* C2 amended: with every result received, every arrival order gives an
\* event with the created_at of the one returned (or nil when nil was
\* returned), and gives the same relay too when a single relay holds the
\* newest event.
C2_AnyOrderSameStamp ==
    (Returned /\ got = relays) =>
        \A o \in Orders(relays) :
            /\ ResultFor(o).evt = bestEvt
            /\ Cardinality(Holders(relays)) = 1 => ResultFor(o).url = bestURL

\* two relays hold the newest event and a third an older one
C2_Witness ==
    /\ Returned /\ got = relays /\ Cardinality(relays) = 3
    /\ Cardinality(Holders(relays)) = 2
    /\ Cardinality(Stamps(relays)) = 2

\* C3: a return before every relay has reported happens on the deadline
\* only, and gives the newest event among the results received up to then,
\* ("", nil) when none was received.
C3_DeadlineBestSoFar ==
    (Returned /\ got # relays) =>
        /\ ctxDone
        /\ remaining > 0
        /\ BestAmong(got)
        /\ got = {} => (bestURL = NoURL /\ bestEvt.isNil)

\* returned on the deadline with one event received, while a relay holding
\* a newer event had not reported
C3_Witness ==
    /\ Returned /\ ctxDone /\ ~bestEvt.isNil
    /\ \E p \in relays \ got :
          ~held[p].isNil /\ held[p].CreatedAt > bestEvt.CreatedAt

\* C4: once the deadline of the context has fired, fetchKindFrom returns,
\* whatever the relay tasks do.
C4_ReturnsAfterDeadline == ctxDone ~> Returned

\* returned although no relay task has delivered a result
C4_Witness ==
    /\ Returned /\ relays # {}
    /\ \A p \in relays : taskPc[p] = "query"

----------------------------------------------------------------------------
(* Properties of SelectRelays                                              *)

Selected == selection.selected

\* the positions of the output holding an outbox-tagged address
OutboxAt == { i \in 1..Len(Selected) : classifyRelay(Selected[i]) = "outbox" }

\* the cap in force
CapOf(mc) == IF mc <= 0 THEN 5 ELSE mc

\* the fallback was appended
FallbackAppended ==
    /\ Len(Selected) = Len(selection.picked) + 1
    /\ Selected[Len(Selected)] = purplepag

\* C5: the output contains exactly one outbox-tagged address.
C5_ExactlyOneOutbox == selectPc = "done" => Cardinality(OutboxAt) = 1

\* two outbox candidates that could both be taken, one of them taken
C5_Witness ==
    /\ selectPc = "done"
    /\ selection.hasOutbox
    /\ Cardinality({ i \in 1..Len(candidates) :
            /\ candidates[i].Purpose = "outbox"
            /\ candidates[i].Reachable
            /\ ~candidates[i].PaymentRequired }) >= 2

\* C6: the output has at most m + 1 addresses, m being maxCount or 5 when
\* maxCount <= 0, and m + 1 only with the fallback appended last.
C6_AtMostCapPlusFallback ==
    selectPc = "done" =>
        /\ Len(Selected) <= CapOf(maxCount) + 1
        /\ Len(Selected) = CapOf(maxCount) + 1 => FallbackAppended

\* the default cap of 5 is reached and the fallback makes it 6
C6_Witness ==
    /\ selectPc = "done" /\ maxCount <= 0
    /\ Len(Selected) = 6
    /\ Len(candidates) > 5

\* C7: every entry the loop appended is the address of a candidate that is
\* reachable, not payment-required, tagged general or outbox, and scored
\* 0.5 or more when general; no candidate tagged inbox, search, nwc or paid
\* is taken; the five-candidate scenario with maxCount 3 gives the outbox
\* relay and the two general relays scoring 0.5 or more.
C7_OnlyEligibleSelected ==
    selectPc = "done" =>
        /\ Len(selection.picked) <= Len(Selected)
        /\ \A k \in 1..Len(selection.picked) :
              LET c == candidates[selection.picked[k]] IN
              /\ Selected[k] = c.URL
              /\ c.Reachable
              /\ ~c.PaymentRequired
              /\ c.Purpose \in {"general", "outbox"}
              /\ c.Purpose = "general" => c.Score >= 50
        /\ Len(Selected) > Len(selection.picked) => FallbackAppended
        /\ (candidates = ScenarioList /\ maxCount = 3) =>
              Selected = <<purplepag, nosLol, relayDamus>>

\* an inbox relay that is reachable and free stands before a general relay
\* that is taken
C7_Witness ==
    /\ selectPc = "done"
    /\ Len(candidates) = 2
    /\ candidates[1].Purpose = "inbox"
    /\ candidates[1].Reachable /\ ~candidates[1].PaymentRequired
    /\ candidates[1].Score >= 50
    /\ selection.picked = <<2>>
    /\ candidates[2].Purpose = "general"

----------------------------------------------------------------------------
(* Properties of calculateRelayScore                                       *)

Clamp(x) == IF x < 0 THEN 0 ELSE IF x > 100 THEN 100 ELSE x

B(b, n) == IF b THEN n ELSE 0

\* the formula of the specification
ReferenceTier(l) ==
    CASE l < 200 -> 20
      [] l >= 200 /\ l < 500 -> 15
      [] l >= 500 /\ l < 1000 -> 10
      [] l >= 1000 /\ l < 2000 -> 5
      [] l >= 2000 -> 0

ReferenceScore(r) ==
    IF ~r.Reachable THEN 0
    ELSE Clamp(50 + B(r.HasNIP11, 15) + ReferenceTier(r.LatencyMs)
                  - B(r.AuthRequired, 10) - B(r.PaymentRequired, 10))

\* C8: the score returned is the reference formula's.
C8_ScoreIsReference == scorePc = "done" => score = ReferenceScore(rs)

\* a reachable relay with a document, at a tier limit, with both penalties
C8_Witness ==
    /\ scorePc = "done" /\ rs.Reachable /\ rs.HasNIP11
    /\ rs.LatencyMs = 500 /\ rs.AuthRequired /\ rs.PaymentRequired
    /\ score = 55

\* C9: the score returned lies in [0.0, 1.0].
C9_ScoreInRange == scorePc = "done" => (score >= 0 /\ score <= 100)

\* an unreachable relay with a negative latency and both penalties
C9_Witness ==
    /\ scorePc = "done" /\ ~rs.Reachable /\ rs.LatencyMs < 0
    /\ rs.AuthRequired /\ rs.PaymentRequired /\ ~rs.HasNIP11
    /\ score = 0

\* C10: a record differing from the scored one only by a lower latency
\* does not score lower.
C10_LowerLatencyNotWorse ==
    scorePc = "done" =>
        \A l \in Latencies :
            l < rs.LatencyMs =>
                calculateRelayScore([rs EXCEPT !.LatencyMs = l]) >= score

\* a reachable relay just past a tier limit, which a lower latency beats
C10_Witness ==
    /\ scorePc = "done" /\ rs.Reachable /\ rs.LatencyMs = 200
    /\ calculateRelayScore([rs EXCEPT !.LatencyMs = 199]) > score

----------------------------------------------------------------------------
(* Properties of classifyRelay, ShouldPublishTo and normalizeRelayURL      *)

Purposes == {"general", "outbox", "inbox", "search", "nwc", "paid"}

\* the tag the stated order gives: the table, then the patterns in order,
\* then general
StatedPurpose(u) ==
    IF u = purplepag THEN "outbox"
    ELSE IF u \in {relayNosSocial, inboxRelaysLand} THEN "inbox"
    ELSE IF u = searchNosToday THEN "search"
    ELSE IF u \in {premiumPrimal, nostrWine} THEN "paid"
    ELSE IF Contains(u, <<"/","i","n","b","o","x">>) THEN "inbox"
    ELSE IF Contains(u, <<"n","w","c",".">>) THEN "nwc"
    ELSE IF Contains(u, <<"p","y","r","a","m","i","d",".">>) THEN "paid"
    ELSE IF Contains(u, <<"p","r","e","m","i","u","m",".">>) THEN "paid"
    ELSE "general"

C12_PublishRule ==
    classPc \in {"asked", "normalized", "done"} =>
        /\ publishOk =
              (\/ classifyRelay(addr) = "general"
               \/ /\ classifyRelay(addr) = "outbox"
                  /\ kind \in {0, 3, 10002})
        /\ classifyRelay(addr) \in {"inbox", "search", "nwc", "paid"}
              => ~publishOk

\* the follow list is accepted for the outbox relay
C12_Witness ==
    /\ classPc = "asked"
    /\ addr = purplepag /\ kind = 3
    /\ publishOk

\* C13: normalizeRelayURL applied to its own result returns that result.
C13_NormalizeIdempotent == classPc = "done" => renormal = normal

----------------------------------------------------------------------------
(* Properties of ScoreRelay                                                *)

\* C14: a record ScoreRelay returns with Reachable false has HasNIP11 false
\* and no Info, whatever fetchNIP11 returned.
C14_UnreachableNoDocument ==
    (probePc = "done" /\ ~probed.Reachable) =>
        ~probed.HasNIP11 /\ ~probed.Info.present

\* C15: the record ScoreRelay returns carries the issues scoring produced:
\* score 0 and "unreachable" for a relay that is not reachable, and the
\* no-document, slow, auth and payment issues that applied otherwise.
C15_IssuesCarried ==
    probePc = "done" =>
        /\ probed.Issues = calculateRelayScore_Issues(probed)
        /\ ~probed.Reachable =>
              /\ probed.Score = 0
              /\ "unreachable" \in Range(probed.Issues)

----------------------------------------------------------------------------
(* Properties of a check run                                               *)

\* C16: connectCheckRelays opens at most one connection per configured
\* relay, and the tasks of every fetchKindFrom call query only the
\* connections it returned: the connections opened in a run never exceed
\* the configured relays, however many kinds are fetched.
C16_OneConnectionPerRelay ==
    /\ opened <= Len(Configured)
    /\ opened = Cardinality({p \in ConfiguredSet : conn[p] # "none"})
    /\ \A k \in Calls, p \in ConfiguredSet :
          rtask[k][p] # "none" =>
              p \in Range(checkRelays) /\ conn[p] # "none"

\* two calls of fetchKindFrom have run over two connections
C16_Witness ==
    /\ fetches >= 2
    /\ Len(checkRelays) >= 2
    /\ opened = Len(checkRelays)
    /\ \A p \in Range(checkRelays) : rtask[2][p] # "none"

\* C17: connectCheckRelays does not cancel the context of a connection it
\* returns, and every returned connection is open when a fetchKindFrom
\* task queries it.
C17_ReturnedConnectionsOpen ==
    /\ \A p \in Range(checkRelays) : connCtx[p] # "cancelled"
    /\ ~queriedClosed

----------------------------------------------------------------------------
(* Properties of runCheck                                                  *)

\* C18: runCheck exits with 0 exactly when no recorded item has status
\* fail, and with 1 exactly when some item has.
C18_ExitZeroIffNoFail ==
    checkPc = "exit" =>
        /\ exitCode = 0 <=> checks.fail = 0
        /\ exitCode = 1 <=> checks.fail >= 1

----------------------------------------------------------------------------
(* Properties of runSetup                                                  *)

\* C19: with --nsec-cmd given, nothing is published before the command has
\* completed successfully, and after a failed command setup has aborted
\* with nothing published.
C19_StoredBeforePublish ==
    opts.nsecCmd =>
        /\ published # <<>> => nsecStored = "ok"
        /\ nsecStored \notin {"not run", "ok"} =>
              /\ published = <<>>
              /\ setupPc = "fatal"
              /\ setupExit = 1

\* the command succeeded and the profile was published after it
C19_Witness ==
    /\ opts.nsecCmd
    /\ nsecStored = "ok"
    /\ published = <<0>>

----------------------------------------------------------------------------
(* The outbox relay and the cap of SelectRelays                            *)

\* candidates the loop can take
IncludableGeneral ==
    { i \in 1..Len(candidates) :
        /\ candidates[i].Purpose = "general"
        /\ candidates[i].Reachable
        /\ ~candidates[i].PaymentRequired
        /\ candidates[i].Score >= 50 }
IncludableOutbox ==
    { i \in 1..Len(candidates) :
        /\ candidates[i].Purpose = "outbox"
        /\ candidates[i].Reachable
        /\ ~candidates[i].PaymentRequired }

\* the general entries of the output
GeneralsOut ==
    { k \in 1..Len(selection.picked) :
        candidates[selection.picked[k]].Purpose = "general" }

\* C20 as stated: with an includable outbox candidate and at least maxCount
\* includable general candidates, the output holds maxCount general
\* addresses in addition to the outbox address.
C20_OutboxBesideCap ==
    (/\ selectPc = "done"
     /\ IncludableOutbox # {}
     /\ Cardinality(IncludableGeneral) >= CapOf(maxCount)) =>
        /\ Cardinality(GeneralsOut) = CapOf(maxCount)
        /\ OutboxAt # {}

\* C20: an included outbox candidate counts against the cap.  With an
\* includable outbox candidate and at least maxCount includable general
\* candidates: when fewer than maxCount includable general candidates
\* stand before the first includable outbox candidate, the output is that
\* candidate and maxCount - 1 general addresses, maxCount in all, without
\* fallback; otherwise the output is maxCount general addresses followed
\* by the fallback.
C20_OutboxCountsAgainstCap ==
    (/\ selectPc = "done"
     /\ IncludableOutbox # {}
     /\ Cardinality(IncludableGeneral) >= CapOf(maxCount)) =>
        LET m      == CapOf(maxCount)
            before == Cardinality({ i \in IncludableGeneral :
                                      i < Min(IncludableOutbox) })
        IN  IF before < m
            THEN /\ selection.hasOutbox
                 /\ Cardinality(GeneralsOut) = m - 1
                 /\ Len(Selected) = m
                 /\ ~FallbackAppended
            ELSE /\ ~selection.hasOutbox
                 /\ Cardinality(GeneralsOut) = m
                 /\ Len(Selected) = m + 1
                 /\ FallbackAppended

\* an outbox candidate was taken before two general ones, with a cap of 3
C20_Witness ==
    /\ selectPc = "done"
    /\ maxCount = 3
    /\ selection.hasOutbox
    /\ Cardinality(IncludableGeneral) >= 3
    /\ Cardinality(GeneralsOut) = 2
    /\ Len(Selected) = 3

----------------------------------------------------------------------------
(* The fallback of SelectRelays                                            *)

\* includable general candidates standing before the first includable
\* outbox candidate
GeneralsBeforeOutbox ==
    Cardinality({ i \in IncludableGeneral : i < Min(IncludableOutbox) })

\* C21 as stated: the fallback is appended only when the list holds no
\* reachable, free outbox candidate; when it holds one, the first of them
\* is the outbox entry of the output, wherever it stands.
C21_FallbackOnlyWithoutOutbox ==
    selectPc = "done" =>
        /\ FallbackAppended => IncludableOutbox = {}
        /\ IncludableOutbox # {} =>
              \E k \in 1..Len(selection.picked) :
                  selection.picked[k] = Min(IncludableOutbox)

\* C21: the fallback is appended exactly when the loop took no outbox
\* candidate, which happens when the list holds no reachable, free outbox
\* candidate or when the cap was reached before the first of them; when
\* that first one is reached before the cap, it is the outbox entry of the
\* output.
C21_FallbackWhenNoneTaken ==
    selectPc = "done" =>
        /\ FallbackAppended <=> ~selection.hasOutbox
        /\ ~selection.hasOutbox <=>
              \/ IncludableOutbox = {}
              \/ GeneralsBeforeOutbox >= CapOf(maxCount)
        /\ selection.hasOutbox =>
              \E k \in 1..Len(selection.picked) :
                  /\ selection.picked[k] = Min(IncludableOutbox)
                  /\ \A j \in 1..Len(selection.picked) :
                        candidates[selection.picked[j]].Purpose = "outbox"
                            => j = k

\* a reachable, free outbox candidate stands behind the cap and the
\* fallback is appended
C21_Witness ==
    /\ selectPc = "done"
    /\ IncludableOutbox # {}
    /\ GeneralsBeforeOutbox >= CapOf(maxCount)
    /\ FallbackAppended

\* C22 as stated: no address of the output is the address of a candidate
\* that is unreachable or payment-required.
C22_NoBadAddressInOutput ==
    selectPc = "done" =>
        \A j \in 1..Len(Selected), i \in 1..Len(candidates) :
            candidates[i].URL = Selected[j] =>
                candidates[i].Reachable /\ ~candidates[i].PaymentRequired

\* C22: every entry the loop appended is the address of the candidate it
\* was taken from, which is reachable and not payment-required; an address
\* of the output belongs to an unreachable or payment-required candidate
\* only as the appended fallback, or when another candidate with the same
\* address was the one taken.
C22_BadAddressOnlyByFallback ==
    selectPc = "done" =>
        /\ \A k \in 1..Len(selection.picked) :
              /\ Selected[k] = candidates[selection.picked[k]].URL
              /\ candidates[selection.picked[k]].Reachable
              /\ ~candidates[selection.picked[k]].PaymentRequired
        /\ \A j \in 1..Len(Selected), i \in 1..Len(candidates) :
              (/\ candidates[i].URL = Selected[j]
               /\ ~candidates[i].Reachable \/ candidates[i].PaymentRequired)
              => \/ j = Len(Selected) /\ FallbackAppended
                 \/ j <= Len(selection.picked) /\ selection.picked[j] # i

\* the only outbox candidate is unreachable and its address is appended as
\* the fallback
C22_Witness ==
    /\ selectPc = "done"
    /\ FallbackAppended
    /\ \E i \in 1..Len(candidates) :
          candidates[i].URL = purplepag /\ ~candidates[i].Reachable
    /\ IncludableOutbox = {}
    /\ Len(selection.picked) >= 1

----------------------------------------------------------------------------
(* Classification and normalization                                        *)

\* C30: for every address whose normalized form is non-empty, the purpose
\* and the publish eligibility computed from the address as given are those
\* computed from its normalized form.
C30_ClassifyInvariantUnderNormalize ==
    (classPc \in {"normalized", "done"} /\ normal # <<>>) =>
        /\ purpose = classifyRelay(normal)
        /\ publishOk = ShouldPublishTo(normal, kind)

----------------------------------------------------------------------------
(* Queries on the shared connections                                       *)

\* the calls of fetchKindFrom whose task for relay p still has its query
\* outstanding
Outstanding(p) == { k \in Calls : rtask[k][p] = "querying" }

\* C25: at no time are two queries outstanding on the same shared
\* connection, also after a fetchKindFrom call returned on its deadline and
\* the next call queries the same connections.
C25_OneQueryPerConnection ==
    \A p \in ConfiguredSet : Cardinality(Outstanding(p)) <= 1

----------------------------------------------------------------------------
(* The result channel of fetchKindFrom                                     *)

\* the relays whose result is in the channel
InChannel == { ch[i].url : i \in 1..Len(ch) }

\* the relays whose task has not sent yet
Unsent == { p \in relays : taskPc[p] = "query" }

\* C29: every relay task sends exactly one result, so the results in the
\* channel, the results received and the tasks yet to send add up to the
\* number of relays, which is the channel's capacity: a task that is about
\* to send always finds room, also after fetchKindFrom returned.
C29_SendNeverBlocks ==
    fetchPc \in {"loop", "returned"} =>
        /\ Cardinality(InChannel) = Len(ch)
        /\ InChannel \cap got = {}
        /\ \A p \in relays :
              taskPc[p] = "done" <=> p \in InChannel \cup got
        /\ Len(ch) + Cardinality(got) + Cardinality(Unsent)
              = Cardinality(relays)
        /\ Unsent # {} => Len(ch) < Cardinality(relays)

\* fetchKindFrom returned on its deadline before receiving anything, and
\* afterwards every task sent its result into the channel, filling it
C29_Witness ==
    /\ fetchPc = "returned"
    /\ remaining = Cardinality(relays)
    /\ Cardinality(relays) >= 2
    /\ Len(ch) = Cardinality(relays)
    /\ \A p \in relays : taskPc[p] = "done"

----------------------------------------------------------------------------
(* The latency of a probed relay                                           *)

\* C26: in the record ScoreRelay returns, LatencyMs is the latency of the
\* document fetch whenever the fetch succeeded, and the latency of the
\* session handshake in every other case.
C26_LatencyDocumentElseSession ==
    probePc = "done" =>
        probed.LatencyMs =
            IF nip11.ok /\ nip11.info.present THEN nip11.latency
            ELSE ws.latency

----------------------------------------------------------------------------
(* Properties of discovery                                                 *)

\* C23: a sampling task tries the seeds in order and stops at the first
\* seed that returns the account's document: a task that has ended either
\* got the document from the last seed it contacted or has contacted every
\* seed.
C23_StopsAtFirstDocument ==
    \A a \in Accounts :
        dtask[a].pc = "done" =>
            \/ dtask[a].last = "holds"
            \/ dtask[a].seed = Len(seedRelays)

\* C24: the tally counts accounts, not tags: the count of an address never
\* exceeds the number of accounts whose document lists it, DiscoverDMRelays
\* returns an address only if two accounts list it, and returns the default
\* list when no address is listed by two.
C24_TallyCountsAccounts ==
    /\ \A u \in DiscURLs : relaySet[u] <= Cardinality(listedBy[u])
    /\ (discPc = "returned" /\ discMode = "dm") =>
          /\ \A i \in DOMAIN discovered :
                Cardinality(listedBy[discovered[i]]) >= 2
          /\ (\A u \in DiscURLs : Cardinality(listedBy[u]) < 2)
                => discovered = DefaultDMRelays

\* the place of record x in sequence q
Place(q, x) == CHOOSE i \in DOMAIN q : q[i] = x

\* C27: DiscoverRelays returns the records in non-increasing order of
\* score, and records of equal score in the order they had before the sort.
C27_SortedStable ==
    (discPc = "returned" /\ discMode = "relays") =>
        \A i, j \in DOMAIN discovered :
            i < j =>
                /\ discovered[i].Score >= discovered[j].Score
                /\ discovered[i].Score = discovered[j].Score
                      => Place(scores, discovered[i])
                            < Place(scores, discovered[j])

\* the tasks between mu.Lock() and mu.Unlock()
InCritical == { a \in Accounts : dtask[a].pc = "locked" }

\* C28: at most one task is between Lock and Unlock, it is the holder of
\* the mutex and the count it read is still the count of the tally; the
\* tally is read for collection only after every task has ended; and the
\* tally of every address is the number of increments made for it.
C28_TallyGuarded ==
    /\ Cardinality(InCritical) <= 1
    /\ \A a \in InCritical :
          mu = a /\ dtask[a].tmp = relaySet[Head(dtask[a].todo)]
    /\ mu = 0 => InCritical = {}
    /\ discPc # "sampling" => \A a \in Accounts : dtask[a].pc = "done"
    /\ \A u \in DiscURLs : relaySet[u] = incs[u]

\* two tasks incremented the count of one address and the tally has been
\* collected
C28_Witness ==
    /\ discPc = "returned"
    /\ \E u \in DiscURLs :
          Cardinality(listedBy[u]) >= 2 /\ relaySet[u] >= 2

============================================================================
